---- MODULE Spec2Model ----
(***************************************************************************)
(* Model of the GitHub runner monitor (src/src/probe.ts) over the StatelyDB *)
(* schema (schema.ts).  One invocation of the Lambda handler is a "pass".   *)
(* Every await of the handler (a persistence read or write, the remote      *)
(* fetch, a Slack dispatch) is one step of the pass; the synchronous code   *)
(* between two awaits belongs to the step of the await that follows it.     *)
(*                                                                          *)
(* Fields of the items that never influence control flow (enabled, os,      *)
(* labels, description, createdAt, updatedAt) are not modelled.             *)
(* Date.now() is the number of the invocation that reads it.                *)
(***************************************************************************)
EXTENDS Integers, Sequences, FiniteSets, TLC

\* ------------------------------------------------------------ bounds
MaxPasses == 3
MaxRunnerId == 2
\* The invocations of a run that watches a single runner.
MaxPassesOneRunner == 6
\* The invocations of a run over two repositories.
MaxPassesTwoRepositories == 2
\* The invocations of a run in which GitHub reports arbitrary raw states.
MaxPassesRawStates == 2
\* The invocations of a run in which requests to the store can fail.
MaxPassesStoreFailures == 3
\* The invocations of a run in which two invocations can overlap.
MaxPassesOverlapping == 3
\* The OutageEvents of one runner in the stores that the slash commands read.
MaxOutages == 6

\* ------------------------------------------------------------ schema
RunnerStatus_ONLINE == 1
RunnerStatus_OFFLINE == 2
RunnerStatus_BUSY == 3
RunnerStatus_UNKNOWN == 4
RunnerStatus_IDLE == 5

UNHEALTHY_STATUSES == {RunnerStatus_OFFLINE, RunnerStatus_UNKNOWN}

\* HTTP status codes returned by the handler; 0 while nothing was returned.
StatusOk == 200
StatusError == 500

RunnerIds == 1..MaxRunnerId
\* Runner names, in the key order of the store.
NameOrder == <<"a", "b">>
Names == {NameOrder[k] : k \in 1..Len(NameOrder)}
GitHubStates == {"online", "offline"}

\* A runner descriptor of the GitHub API response (interface GitHubRunner);
\* only a runner that is online runs a job.
GitHubRunner ==
  {r \in [id : RunnerIds, name : Names, status : GitHubStates, busy : BOOLEAN] :
     r.busy => r.status = "online"}

\* The responses of the GitHub API: the runners of one repository have
\* distinct names and are listed by ascending id.
RemoteLists ==
  {s \in UNION {[1..n -> GitHubRunner] : n \in 0..Cardinality(Names)} :
     \A i, j \in DOMAIN s : i < j => s[i].id < s[j].id /\ s[i].name # s[j].name}

\* The responses about a repository with the single runner 1, named "a".
OneRunnerLists ==
  {s \in RemoteLists : \A k \in DOMAIN s : s[k].id = 1 /\ s[k].name = "a"}

\* The responses about that repository in which the runner runs no job.
OneIdleRunnerLists ==
  {s \in OneRunnerLists : \A k \in DOMAIN s : ~s[k].busy}

\* Values of the status field of a runner descriptor: the literal "online"
\* and strings that differ from it, by case or altogether.
RawStates == {"online", "offline", "Online", "idle", ""}

\* Descriptors of the single runner 1, named "a", with any raw state and any
\* busy flag.
RawRunner == [id : {1}, name : {NameOrder[1]}, status : RawStates, busy : BOOLEAN]

\* The responses about a repository with that runner.
RawLists == {<< >>} \cup {<<r>> : r \in RawRunner}

\* The configured repositories ("owner/name"), in list order.
ConfiguredRepositories == << [owner |-> "o", name |-> "x"] >>

\* A configuration with two repositories.
TwoRepositories == << [owner |-> "o", name |-> "x"], [owner |-> "o", name |-> "y"] >>

\* slack.ts:250: the one repository that the slash commands answer for.
SlackRepoId == "stately"
\* slack.ts:136: the limit of the history list.
HistoryLimit == 5
\* The command names that a request may carry, one of them unknown to the handler.
Commands == {"/runner-history", "/runner-status-all", "/runner-restart"}
\* The text of a request: a runner name, or nothing.
Texts == Names \cup {""}

\* A configuration with two repositories of one name under two owners.
SameNameRepositories == << [owner |-> "o", name |-> "x"], [owner |-> "p", name |-> "x"] >>

PassIds == {1, 2}

NoRunner == [repoId |-> "", runnerId |-> 0, name |-> "", status |-> 0,
             lastSeenAt |-> 0, firstSeenAt |-> 0]
NoOutage == [repoId |-> "", runnerId |-> 0, outageId |-> 0, status |-> 0,
             startedAt |-> 0, resolvedAt |-> 0, notificationSent |-> FALSE]
NoRepository == [repoId |-> "", owner |-> "", name |-> "", isActive |-> FALSE,
                 lastSyncedAt |-> 0]

VARIABLES
  now,          \* Date.now(): the number of invocations started so far
  env,          \* the run: the responses the GitHub API may give, the invocations
                \* scheduled, and whether AWS_SAM_LOCAL may be set
  repositories, \* the parsed SSM_REPOSITORIES parameter
  repoStore,    \* Repository items, by key /repo-:repoId
  runnerStore,  \* Runner items, by key /repo-:repoId/runner-:name
  outageStore,  \* OutageEvent items, by key /repo-:repoId/history-:runnerId/outage-:outageId
  pass,         \* per invocation: the handler's position and local variables
  lastPass,     \* per repoId: what the latest finished processing of it saw
  query         \* the slash-command handler's position and local variables

vars == <<now, env, repositories, repoStore, runnerStore, outageStore, pass, lastPass, query>>

\* ------------------------------------------------------------ persistence
\* keyPath "/repo-:repoId"
RepositoryKey(item) == <<item.repoId>>
\* keyPath "/repo-:repoId/runner-:name"
RunnerKey(item) == <<item.repoId, item.name>>
\* keyPath "/repo-:repoId/history-:runnerId/outage-:outageId"
OutageKey(item) == <<item.repoId, item.runnerId, item.outageId>>

\* client.put: the item replaces whatever is stored at its key path.
Put(store, key, item) == (key :> item) @@ store

\* The OutageEvents under /repo-:repoId/history-:runnerId/outage-
OutagesOf(store, repoId, runnerId) ==
  {store[k] : k \in {q \in DOMAIN store : q[1] = repoId /\ q[2] = runnerId}}

\* An outageId that the handler chose itself, the same for every event.
FixedOutageId(store, repoId, runnerId) == 1

\* outageId has initialValue "sequence": the store assigns the next number
\* of the sequence under the item's parent path.
NextOutageId(store, repoId, runnerId) ==
  Cardinality(OutagesOf(store, repoId, runnerId)) + 1

\* ------------------------------------------------------------ pure functions
\* A classifier that looked at the busy flag first.
mapGitHubStatusBusyFirst(githubRunner) ==
  IF githubRunner.busy
    THEN RunnerStatus_BUSY
    ELSE IF githubRunner.status # "online" THEN RunnerStatus_OFFLINE ELSE RunnerStatus_IDLE

\* A classifier that reported an online runner without a job as ONLINE.
mapGitHubStatusOnline(githubRunner) ==
  IF githubRunner.status # "online"
    THEN RunnerStatus_OFFLINE
    ELSE IF githubRunner.busy THEN RunnerStatus_BUSY ELSE RunnerStatus_ONLINE

mapGitHubStatus(githubRunner) ==
  IF githubRunner.status # "online"
    THEN RunnerStatus_OFFLINE
    ELSE IF githubRunner.busy THEN RunnerStatus_BUSY ELSE RunnerStatus_IDLE

\* fetchExistingRunners: the Runner items under /repo-:repoId/runner-, in
\* key order.
fetchExistingRunners(store, repoId) ==
  LET present == SelectSeq(NameOrder, LAMBDA n : <<repoId, n>> \in DOMAIN store)
  IN  [k \in 1..Len(present) |-> store[<<repoId, present[k]>>]]

\* existingRunners.find((r) => r.runnerId === BigInt(githubRunner.id)):
\* the index of the first match, 0 when there is none.
FindExisting(existingRunners, id) ==
  LET hits == {k \in DOMAIN existingRunners : existingRunners[k].runnerId = id}
  IN  IF hits = {} THEN 0 ELSE CHOOSE k \in hits : \A m \in hits : k <= m

\* probe.ts:142
EnteredUnhealthy(status, oldStatus) ==
  status \in UNHEALTHY_STATUSES /\ status # oldStatus

\* probe.ts:152-155
Recovered(status, oldStatus) ==
  status \notin UNHEALTHY_STATUSES /\ oldStatus \in UNHEALTHY_STATUSES

\* probe.ts:191
NewRunnerUnhealthy(status, slackWebhook) ==
  status \in UNHEALTHY_STATUSES /\ slackWebhook

\* probe.ts:222-225
SweptFromHealthy(oldStatus, slackWebhook) ==
  oldStatus \notin UNHEALTHY_STATUSES /\ slackWebhook

\* A list in ascending order: the set holding the item with the least outageId.
FirstOutage(store, repoId, runnerId) ==
  {o \in OutagesOf(store, repoId, runnerId) :
     \A q \in OutagesOf(store, repoId, runnerId) : o.outageId <= q.outageId}

\* The OutageEvent that resolveOutage's list (limit 1, descending) yields:
\* the set holding the item with the greatest outageId, empty without one.
LastOutage(store, repoId, runnerId) ==
  {o \in OutagesOf(store, repoId, runnerId) :
     \A q \in OutagesOf(store, repoId, runnerId) : q.outageId <= o.outageId}

\* SortDirection.SORT_DESCENDING: the items by descending outageId.
RECURSIVE Descending(_)
Descending(items) ==
  IF items = {} THEN <<>>
  ELSE LET first == CHOOSE o \in items : \A q \in items : q.outageId <= o.outageId
       IN  <<first>> \o Descending(items \ {first})

\* A history list without a limit.
beginListUnlimited(store, repoId, runnerId, limit) ==
  Descending(OutagesOf(store, repoId, runnerId))

\* beginList(/repo-:repoId/history-:runnerId/outage-, {limit, SORT_DESCENDING})
beginListDescending(store, repoId, runnerId, limit) ==
  LET all == Descending(OutagesOf(store, repoId, runnerId))
  IN  SubSeq(all, 1, IF Len(all) < limit THEN Len(all) ELSE limit)

\* slack.ts:29-68. headers: both Slack headers are present; fresh: the
\* timestamp comparison of line 48 is not true; signature: timingSafeEqual
\* returned true (it throws on a length mismatch, which line 64 turns to false).
verifySlackRequest(samLocal, headers, fresh, signature) ==
  IF samLocal THEN TRUE
  ELSE IF ~headers THEN FALSE
  ELSE IF ~fresh THEN FALSE
  ELSE signature

\* ------------------------------------------------------------ initial state
IdlePass ==
  [pc |-> "idle", result |-> 0,
   \* the parameters that fetchSSMParameters found: the mode, and which values were set
   samLocal |-> FALSE, required |-> FALSE, githubToken |-> FALSE,
   slackWebhook |-> FALSE, repoIdx |-> 0,
   repository |-> NoRepository, created |-> FALSE,
   runners |-> <<>>, existingRunners |-> <<>>, processedRunnerIds |-> {},
   i |-> 0, j |-> 0, runner |-> NoRunner, status |-> 0, oldStatus |-> 0,
   caller |-> "",
   outage |-> NoOutage, item |-> NoOutage, lastOutageId |-> 0,
   \* what the invocation has done so far (read by the properties only)
   stored |-> {}, reported |-> {}, sameAsLast |-> {}, absentLast |-> {},
   writes |-> {}, opened |-> {}, resolved |-> {}, dispatches |-> <<>>,
   failed |-> {}]

IdleQuery ==
  [pc |-> "idle", statusCode |-> 0,
   \* the request, and the mode of the function
   samLocal |-> FALSE, headers |-> FALSE, fresh |-> FALSE, signature |-> FALSE,
   command |-> "", text |-> "",
   verified |-> FALSE, runner |-> NoRunner, notFound |-> FALSE,
   latestOutages |-> <<>>, runners |-> <<>>,
   \* the item types read from the store so far (read by the properties only)
   reads |-> <<>>]

Init ==
  /\ now = 0
  /\ env = [lists |-> RemoteLists, passes |-> MaxPasses, samLocal |-> BOOLEAN]
  /\ repositories = ConfiguredRepositories
  /\ repoStore = <<>>
  /\ runnerStore = <<>>
  /\ outageStore = <<>>
  /\ pass = [p \in PassIds |-> IdlePass]
  /\ lastPass = <<>>
  /\ query = IdleQuery

\* const [owner, name] = repo.split("/"); const repoId = name;
RepoId(p) == repositories[pass[p].repoIdx].name

\* ------------------------------------------------------------ control flow
\* The locals of one iteration of either loop, cleared when it ends.
ClearIteration(l) ==
  [l EXCEPT !.runner = NoRunner, !.status = 0, !.oldStatus = 0, !.caller = "",
            !.outage = NoOutage, !.item = NoOutage, !.lastOutageId = 0]

\* A handler whose sweep ran inside the loop over the remote list: after
\* each remote runner the stored runners are looked over.
ContinueWithSweep(l) ==
  IF l.caller = "sweep"
    THEN [ClearIteration(l) EXCEPT !.pc = "sweep", !.j = l.j + 1]
    ELSE [ClearIteration(l) EXCEPT !.pc = "sweep", !.j = 1, !.i = l.i + 1]

\* The next iteration of the loop that called handleUnhealthyRunner.
Continue(l) ==
  IF l.caller = "sweep"
    THEN [ClearIteration(l) EXCEPT !.pc = "sweep", !.j = l.j + 1]
    ELSE [ClearIteration(l) EXCEPT !.pc = "runner", !.i = l.i + 1]

\* A handler that reported the failure of a repository to its invoker.
NextRepositoryReportsFailure(l) ==
  LET c == [ClearIteration(l) EXCEPT !.repository = NoRepository, !.created = FALSE,
                                      !.runners = <<>>, !.existingRunners = <<>>,
                                      !.processedRunnerIds = {}, !.i = 0, !.j = 0]
  IN  IF l.repoIdx < Len(repositories)
        THEN [c EXCEPT !.pc = "getRepository", !.repoIdx = l.repoIdx + 1]
        ELSE [c EXCEPT !.pc = "idle", !.repoIdx = 0,
                       !.result = IF l.failed = {} THEN StatusOk ELSE StatusError]

\* A repository loop without the try/catch of probe.ts:72 and 236-238: the
\* failure of a repository ends the loop.
NextRepositoryUnlessFailed(l) ==
  LET c == [ClearIteration(l) EXCEPT !.repository = NoRepository, !.created = FALSE,
                                      !.runners = <<>>, !.existingRunners = <<>>,
                                      !.processedRunnerIds = {}, !.i = 0, !.j = 0]
  IN  IF l.repoIdx < Len(repositories) /\ l.repoIdx \notin l.failed
        THEN [c EXCEPT !.pc = "getRepository", !.repoIdx = l.repoIdx + 1]
        ELSE [c EXCEPT !.pc = "idle", !.repoIdx = 0, !.result = StatusOk]

\* A repository loop that does not advance: the repository just processed is
\* taken up again.
NextRepositoryAgain(l) ==
  LET c == [ClearIteration(l) EXCEPT !.repository = NoRepository, !.created = FALSE,
                                      !.runners = <<>>, !.existingRunners = <<>>,
                                      !.processedRunnerIds = {}, !.i = 0, !.j = 0]
  IN  [c EXCEPT !.pc = "getRepository"]

\* probe.ts:71-73, 236-246: the next repository of the list, or the
\* handler's return when there is none.
NextRepository(l) ==
  LET c == [ClearIteration(l) EXCEPT !.repository = NoRepository, !.created = FALSE,
                                      !.runners = <<>>, !.existingRunners = <<>>,
                                      !.processedRunnerIds = {}, !.i = 0, !.j = 0]
  IN  IF l.repoIdx < Len(repositories)
        THEN [c EXCEPT !.pc = "getRepository", !.repoIdx = l.repoIdx + 1]
        ELSE [c EXCEPT !.pc = "idle", !.repoIdx = 0, !.result = StatusOk]

\* What the processing of a repository that ends now leaves for the next one.
Finished(p, complete) ==
  Put(lastPass, <<RepoId(p)>>,
      [fetched |-> pass[p].pc # "fetchGitHubRunners", complete |-> complete,
       slackWebhook |-> pass[p].slackWebhook,
       runners |-> pass[p].runners,
       stored |-> {pass[p].existingRunners[k].runnerId : k \in DOMAIN pass[p].existingRunners},
       \* the transitions whose runner put was made and whose OutageEvent
       \* request failed, since the repository was last processed to the end
       interrupted |-> IF complete \/ <<RepoId(p)>> \notin DOMAIN lastPass
                         THEN {}
                         ELSE lastPass[<<RepoId(p)>>].interrupted])

\* Finished for a repository given up because the OutageEvent request of
\* `kind` ("open" or "resolve") for the runner being handled has thrown.
Interrupted(p, kind) ==
  LET key == <<RepoId(p)>>
      f   == Finished(p, FALSE)
  IN  [f EXCEPT ![key].interrupted =
         @ \cup {[kind |-> kind, repoId |-> pass[p].runner.repoId,
                   runnerId |-> pass[p].runner.runnerId]}]

\* What the log of Runner puts gains by the put of `runner`.
Written(l, phase, runner, oldStatus) ==
  l.writes \cup {[phase |-> phase, repoId |-> runner.repoId, runnerId |-> runner.runnerId,
                  name |-> runner.name, from |-> oldStatus, to |-> runner.status,
                  lastSeenAt |-> runner.lastSeenAt, firstSeenAt |-> runner.firstSeenAt]}

\* ------------------------------------------------------------ the handler
\* probe.ts:48-68 and 247-257 with fetchSSMParameters (263-306): whether the
\* handler throws before its repository loop.  Under AWS_SAM_LOCAL the values
\* come from the environment unchecked; otherwise getParameter throws on
\* every value that is missing, the GitHub token and the Slack webhook
\* included.  A missing store id or repository list (`required`) makes
\* BigInt() or JSON.parse throw in either mode.
ConfigurationFails(samLocal, required, githubToken, slackWebhook) ==
  ~required \/ (~samLocal /\ (~githubToken \/ ~slackWebhook))

\* probe.ts:45-68 with fetchSSMParameters (263-306).
StartPass(p) ==
  /\ pass[p].pc = "idle"
  /\ now < env.passes
  /\ now' = now + 1
  /\ \E samLocal \in env.samLocal, required \in BOOLEAN,
        githubToken \in BOOLEAN, slackWebhook \in BOOLEAN :
       LET fresh == [IdlePass EXCEPT !.samLocal = samLocal, !.required = required,
                                     !.githubToken = githubToken,
                                     !.slackWebhook = slackWebhook]
       IN  pass' = [pass EXCEPT ![p] =
             IF ConfigurationFails(samLocal, required, githubToken, slackWebhook)
               THEN [fresh EXCEPT !.result = StatusError]
             ELSE IF Len(repositories) = 0 THEN [fresh EXCEPT !.result = StatusOk]
             ELSE [fresh EXCEPT !.pc = "getRepository", !.repoIdx = 1]]
  /\ UNCHANGED <<env, repositories, repoStore, runnerStore, outageStore, lastPass, query>>

\* probe.ts:75-82
GetRepository(p) ==
  /\ pass[p].pc = "getRepository"
  /\ LET key == <<RepoId(p)>>
         cfg == repositories[pass[p].repoIdx]
     IN  pass' = [pass EXCEPT ![p] =
           IF key \in DOMAIN repoStore
             THEN [@ EXCEPT !.pc = "putRepository", !.repository = repoStore[key]]
             ELSE [@ EXCEPT !.pc = "putRepository", !.created = TRUE,
                            !.repository = [repoId |-> cfg.name, owner |-> cfg.owner,
                                            name |-> cfg.name, isActive |-> TRUE,
                                            lastSyncedAt |-> 0]]]
  /\ UNCHANGED <<now, env, repositories, repoStore, runnerStore, outageStore, lastPass, query>>

\* A handler that stored the Repository only when it created it.
PutRepositoryWhenCreated(p) ==
  /\ pass[p].pc = "putRepository"
  /\ repoStore' = IF pass[p].created
                    THEN Put(repoStore, RepositoryKey(pass[p].repository),
                             [pass[p].repository EXCEPT !.lastSyncedAt = now])
                    ELSE repoStore
  /\ pass' = [pass EXCEPT ![p].pc = "fetchGitHubRunners"]
  /\ UNCHANGED <<now, env, repositories, runnerStore, outageStore, lastPass, query>>

\* probe.ts:84-100
PutRepository(p) ==
  /\ pass[p].pc = "putRepository"
  /\ LET repository == [pass[p].repository EXCEPT !.lastSyncedAt = now]
     IN  /\ repoStore' = Put(repoStore, RepositoryKey(repository), repository)
         /\ pass' = [pass EXCEPT ![p].pc = "fetchGitHubRunners",
                                 ![p].repository = repository]
  /\ UNCHANGED <<now, env, repositories, runnerStore, outageStore, lastPass, query>>

\* probe.ts:103 with fetchGitHubRunners (311-331): the response of the API,
\* which answers only a request that carries a token.
FetchGitHubRunners(p) ==
  /\ pass[p].pc = "fetchGitHubRunners"
  /\ pass[p].githubToken
  /\ \E runners \in env.lists :
       LET key  == <<RepoId(p)>>
           seen == key \in DOMAIN lastPass /\ lastPass[key].fetched
           ids  == {runners[k].id : k \in DOMAIN runners}
       IN  pass' = [pass EXCEPT
             ![p].pc = "fetchExistingRunners",
             ![p].runners = runners,
             ![p].reported = @ \cup {<<RepoId(p), id>> : id \in ids},
             ![p].sameAsLast =
               IF /\ seen
                  /\ lastPass[key].complete
                  /\ lastPass[key].runners = runners
                  /\ lastPass[key].slackWebhook = pass[p].slackWebhook
                 THEN @ \cup {RepoId(p)} ELSE @,
             ![p].absentLast =
               IF seen
                 THEN @ \cup {<<RepoId(p), id>> : id \in lastPass[key].stored \
                        {lastPass[key].runners[k].id : k \in DOMAIN lastPass[key].runners}}
                 ELSE @]
  /\ UNCHANGED <<now, env, repositories, repoStore, runnerStore, outageStore, lastPass, query>>

\* probe.ts:327-330 and 236-238: the fetch throws, the repository is given up.
FetchGitHubRunnersFails(p) ==
  /\ pass[p].pc = "fetchGitHubRunners"
  /\ lastPass' = Finished(p, FALSE)
  /\ pass' = [pass EXCEPT ![p] = NextRepository([@ EXCEPT !.failed = @ \cup {pass[p].repoIdx}])]
  /\ UNCHANGED <<now, env, repositories, repoStore, runnerStore, outageStore, query>>

\* probe.ts:106-113
FetchExistingRunners(p) ==
  /\ pass[p].pc = "fetchExistingRunners"
  /\ LET existingRunners == fetchExistingRunners(runnerStore, RepoId(p))
     IN  pass' = [pass EXCEPT ![p].pc = "runner", ![p].i = 1,
                              ![p].existingRunners = existingRunners,
                              ![p].stored = @ \cup {existingRunners[k] : k \in DOMAIN existingRunners},
                              ![p].processedRunnerIds = {}]
  /\ UNCHANGED <<now, env, repositories, repoStore, runnerStore, outageStore, lastPass, query>>

\* probe.ts:116-169, up to the put of line 139 and the two checks after it.
UpdateExistingRunner(p) ==
  /\ pass[p].pc = "runner"
  /\ pass[p].i <= Len(pass[p].runners)
  /\ LET l == pass[p]
         githubRunner == l.runners[l.i]
         status == mapGitHubStatus(githubRunner)
         k == FindExisting(l.existingRunners, githubRunner.id)
     IN  /\ k # 0
         /\ LET oldStatus == l.existingRunners[k].status
                existingRunner == [l.existingRunners[k] EXCEPT
                                     !.name = githubRunner.name,
                                     !.status = status,
                                     !.lastSeenAt = now]
                m == [l EXCEPT !.processedRunnerIds = @ \cup {githubRunner.id},
                               !.existingRunners[k] = existingRunner,
                               !.runner = existingRunner,
                               !.status = status,
                               !.oldStatus = oldStatus,
                               !.caller = "runner",
                               !.writes = Written(l, "update", existingRunner, oldStatus)]
            IN  /\ runnerStore' = Put(runnerStore, RunnerKey(existingRunner), existingRunner)
                /\ pass' = [pass EXCEPT ![p] =
                     IF EnteredUnhealthy(status, oldStatus)
                       THEN [m EXCEPT !.pc = "createOutage"]
                     ELSE IF Recovered(status, oldStatus)
                       THEN [m EXCEPT !.pc = "resolveOutage"]
                     ELSE Continue(m)]
  /\ UNCHANGED <<now, env, repositories, repoStore, outageStore, lastPass, query>>

\* probe.ts:116-125 and 170-199, up to the put of line 185 and the check after it.
CreateNewRunner(p) ==
  /\ pass[p].pc = "runner"
  /\ pass[p].i <= Len(pass[p].runners)
  /\ LET l == pass[p]
         githubRunner == l.runners[l.i]
         status == mapGitHubStatus(githubRunner)
         k == FindExisting(l.existingRunners, githubRunner.id)
     IN  /\ k = 0
         /\ LET newRunner == [repoId |-> RepoId(p), runnerId |-> githubRunner.id,
                              name |-> githubRunner.name, status |-> status,
                              lastSeenAt |-> now, firstSeenAt |-> now]
                m == [l EXCEPT !.processedRunnerIds = @ \cup {githubRunner.id},
                               !.runner = newRunner,
                               !.status = status,
                               !.caller = "runner",
                               !.writes = Written(l, "create", newRunner, 0)]
            IN  /\ runnerStore' = Put(runnerStore, RunnerKey(newRunner), newRunner)
                /\ pass' = [pass EXCEPT ![p] =
                     IF NewRunnerUnhealthy(status, l.slackWebhook)
                       THEN [m EXCEPT !.pc = "createOutage"]
                       ELSE Continue(m)]
  /\ UNCHANGED <<now, env, repositories, repoStore, outageStore, lastPass, query>>

\* probe.ts:116, 200-203: the remote list is exhausted, the sweep begins.
EndOfRunners(p) ==
  /\ pass[p].pc = "runner"
  /\ pass[p].i > Len(pass[p].runners)
  /\ pass' = [pass EXCEPT ![p].pc = "sweep", ![p].j = 1]
  /\ UNCHANGED <<now, env, repositories, repoStore, runnerStore, outageStore, lastPass, query>>

\* handleUnhealthyRunner, probe.ts:379-393: the new OutageEvent is put.
CreateOutage(p) ==
  /\ pass[p].pc = "createOutage"
  /\ LET l == pass[p]
         outage == [repoId |-> l.runner.repoId, runnerId |-> l.runner.runnerId,
                    outageId |-> NextOutageId(outageStore, l.runner.repoId, l.runner.runnerId),
                    status |-> l.status, startedAt |-> now, resolvedAt |-> 0,
                    notificationSent |-> FALSE]
     IN  /\ outageStore' = Put(outageStore, OutageKey(outage), outage)
         /\ pass' = [pass EXCEPT ![p].pc = "sendSlackNotification",
                                 ![p].outage = outage,
                                 ![p].opened = @ \cup {OutageKey(outage)}]
  /\ UNCHANGED <<now, env, repositories, repoStore, runnerStore, lastPass, query>>

\* handleUnhealthyRunner, probe.ts:380 and 236-238: the put of the new
\* OutageEvent throws; the runner's new status is stored already (line 139
\* or 216), the repository is given up.
CreateOutageFails(p) ==
  /\ pass[p].pc = "createOutage"
  /\ lastPass' = Interrupted(p, "open")
  /\ pass' = [pass EXCEPT ![p] = NextRepository([@ EXCEPT !.failed = @ \cup {pass[p].repoIdx}])]
  /\ UNCHANGED <<now, env, repositories, repoStore, runnerStore, outageStore, query>>

\* What the log of dispatch attempts gains by one attempt.
Dispatched(l, kind, outageId, ok) ==
  Append(l.dispatches, [kind |-> kind, repoId |-> l.runner.repoId,
                        runnerId |-> l.runner.runnerId, outageId |-> outageId,
                        ok |-> ok])

\* A handleUnhealthyRunner whose lines 399-401 stood after the try block:
\* the OutageEvent is marked whatever became of the POST.
SendSlackNotificationThenMark(p) ==
  /\ pass[p].pc = "sendSlackNotification"
  /\ \E ok \in BOOLEAN :
       /\ ok => pass[p].slackWebhook
       /\ pass' = [pass EXCEPT ![p].pc = "markNotificationSent",
                               ![p].dispatches = Dispatched(pass[p], "alert", pass[p].outage.outageId, ok)]
  /\ UNCHANGED <<now, env, repositories, repoStore, runnerStore, outageStore, lastPass, query>>

\* handleUnhealthyRunner, probe.ts:395-404 with sendSlackNotification
\* (435-488): axios.post resolves or rejects; without a webhook URL it
\* rejects.  A rejection is caught and logged.
SendSlackNotification(p) ==
  /\ pass[p].pc = "sendSlackNotification"
  /\ \E ok \in BOOLEAN :
       /\ ok => pass[p].slackWebhook
       /\ LET m == [pass[p] EXCEPT !.dispatches = Dispatched(pass[p], "alert", pass[p].outage.outageId, ok)]
          IN  pass' = [pass EXCEPT ![p] =
                IF ok THEN [m EXCEPT !.pc = "markNotificationSent"] ELSE Continue(m)]
  /\ UNCHANGED <<now, env, repositories, repoStore, runnerStore, outageStore, lastPass, query>>

\* handleUnhealthyRunner, probe.ts:399-401: the OutageEvent object created
\* above is put again with notificationSent set.
MarkNotificationSent(p) ==
  /\ pass[p].pc = "markNotificationSent"
  /\ LET outage == [pass[p].outage EXCEPT !.notificationSent = TRUE]
     IN  /\ outageStore' = Put(outageStore, OutageKey(outage), outage)
         /\ pass' = [pass EXCEPT ![p] = Continue([@ EXCEPT !.outage = outage])]
  /\ UNCHANGED <<now, env, repositories, repoStore, runnerStore, lastPass, query>>

\* probe.ts:161-168: the recovery message is sent when a webhook is configured.
AfterResolve(l) ==
  IF l.slackWebhook THEN [l EXCEPT !.pc = "sendSlackRecoveryNotification"] ELSE Continue(l)

\* resolveOutage, probe.ts:415-421: the list of the runner's latest OutageEvent.
ResolveOutage(p) ==
  /\ pass[p].pc = "resolveOutage"
  /\ LET l == pass[p]
         last == LastOutage(outageStore, RepoId(p), l.runners[l.i].id)
         open == {o \in last : o.resolvedAt = 0}
     IN  pass' = [pass EXCEPT ![p] =
           IF open # {}
             THEN [l EXCEPT !.pc = "putResolved", !.item = CHOOSE o \in open : TRUE]
             ELSE AfterResolve([l EXCEPT !.lastOutageId = 0])]
  /\ UNCHANGED <<now, env, repositories, repoStore, runnerStore, outageStore, lastPass, query>>

\* resolveOutage, probe.ts:417-420 and 236-238: the list request throws; the
\* runner's new status is stored already (line 139), the repository is
\* given up.
ResolveOutageFails(p) ==
  /\ pass[p].pc = "resolveOutage"
  /\ lastPass' = Interrupted(p, "resolve")
  /\ pass' = [pass EXCEPT ![p] = NextRepository([@ EXCEPT !.failed = @ \cup {pass[p].repoIdx}])]
  /\ UNCHANGED <<now, env, repositories, repoStore, runnerStore, outageStore, query>>

\* resolveOutage, probe.ts:422-429
PutResolved(p) ==
  /\ pass[p].pc = "putResolved"
  /\ LET item == [pass[p].item EXCEPT !.resolvedAt = now]
     IN  /\ outageStore' = Put(outageStore, OutageKey(item), item)
         /\ pass' = [pass EXCEPT ![p] =
              AfterResolve([@ EXCEPT !.item = item, !.lastOutageId = item.outageId,
                                     !.resolved = @ \cup {OutageKey(item)}])]
  /\ UNCHANGED <<now, env, repositories, repoStore, runnerStore, lastPass, query>>

\* probe.ts:162-167 with sendSlackRecoveryNotification (493-546): the
\* message is posted.
SendSlackRecoveryNotification(p) ==
  /\ pass[p].pc = "sendSlackRecoveryNotification"
  /\ pass' = [pass EXCEPT ![p] =
       Continue([@ EXCEPT !.dispatches = Dispatched(pass[p], "recovery", pass[p].lastOutageId, TRUE)])]
  /\ UNCHANGED <<now, env, repositories, repoStore, runnerStore, outageStore, lastPass, query>>

\* probe.ts:544 and 236-238: axios.post rejects; nothing between the call and
\* the catch of the repository loop handles the rejection.
SendSlackRecoveryNotificationFails(p) ==
  /\ pass[p].pc = "sendSlackRecoveryNotification"
  /\ lastPass' = Finished(p, FALSE)
  /\ pass' = [pass EXCEPT ![p] =
       NextRepository([@ EXCEPT !.dispatches = Dispatched(pass[p], "recovery", pass[p].lastOutageId, FALSE),
                                !.failed = @ \cup {pass[p].repoIdx}])]
  /\ UNCHANGED <<now, env, repositories, repoStore, runnerStore, outageStore, query>>

\* probe.ts:203-210: a stored runner that was reported, or is UNKNOWN already.
SweepSkip(p) ==
  /\ pass[p].pc = "sweep"
  /\ pass[p].j <= Len(pass[p].existingRunners)
  /\ LET existingRunner == pass[p].existingRunners[pass[p].j]
     IN  \/ existingRunner.runnerId \in pass[p].processedRunnerIds
         \/ existingRunner.status = RunnerStatus_UNKNOWN
  /\ pass' = [pass EXCEPT ![p].j = @ + 1]
  /\ UNCHANGED <<now, env, repositories, repoStore, runnerStore, outageStore, lastPass, query>>

\* probe.ts:211-214: the status is set, lastSeenAt is left as it was read.
SweptRunner(existingRunner) ==
  [existingRunner EXCEPT !.status = RunnerStatus_UNKNOWN]

\* probe.ts:203-233, up to the put of line 216 and the check after it.
SweepMissingRunner(p) ==
  /\ pass[p].pc = "sweep"
  /\ pass[p].j <= Len(pass[p].existingRunners)
  /\ LET l == pass[p]
         oldStatus == l.existingRunners[l.j].status
         existingRunner == SweptRunner(l.existingRunners[l.j])
         m == [l EXCEPT !.existingRunners[l.j] = existingRunner,
                        !.runner = existingRunner,
                        !.status = RunnerStatus_UNKNOWN,
                        !.oldStatus = oldStatus,
                        !.caller = "sweep",
                        !.writes = Written(l, "sweep", existingRunner, oldStatus)]
     IN  /\ existingRunner.runnerId \notin l.processedRunnerIds
         /\ oldStatus # RunnerStatus_UNKNOWN
         /\ runnerStore' = Put(runnerStore, RunnerKey(existingRunner), existingRunner)
         /\ pass' = [pass EXCEPT ![p] =
              IF SweptFromHealthy(oldStatus, l.slackWebhook)
                THEN [m EXCEPT !.pc = "createOutage"]
                ELSE Continue(m)]
  /\ UNCHANGED <<now, env, repositories, repoStore, outageStore, lastPass, query>>

\* probe.ts:203, 235-246: the sweep is over, and with it the repository.
EndOfSweep(p) ==
  /\ pass[p].pc = "sweep"
  /\ pass[p].j > Len(pass[p].existingRunners)
  /\ lastPass' = Finished(p, TRUE)
  /\ pass' = [pass EXCEPT ![p] = NextRepository(@)]
  /\ UNCHANGED <<now, env, repositories, repoStore, runnerStore, outageStore, query>>

\* ------------------------------------------------------------ specification
Step(p) ==
  \/ StartPass(p)
  \/ GetRepository(p)
  \/ PutRepository(p)
  \/ FetchGitHubRunners(p)
  \/ FetchGitHubRunnersFails(p)
  \/ FetchExistingRunners(p)
  \/ UpdateExistingRunner(p)
  \/ CreateNewRunner(p)
  \/ EndOfRunners(p)
  \/ CreateOutage(p)
  \/ SendSlackNotification(p)
  \/ MarkNotificationSent(p)
  \/ ResolveOutage(p)
  \/ PutResolved(p)
  \/ SendSlackRecoveryNotification(p)
  \/ SendSlackRecoveryNotificationFails(p)
  \/ SweepSkip(p)
  \/ SweepMissingRunner(p)
  \/ EndOfSweep(p)

\* The passes of the schedule, one after the other: a pass starts after the
\* one before it has returned.
Next == Step(1)

Spec == Init /\ [][Next]_vars

\* A longer run of passes over a repository with a single runner.
InitOneRunner ==
  /\ now = 0
  /\ env = [lists |-> OneRunnerLists, passes |-> MaxPassesOneRunner, samLocal |-> BOOLEAN]
  /\ repositories = ConfiguredRepositories
  /\ repoStore = <<>>
  /\ runnerStore = <<>>
  /\ outageStore = <<>>
  /\ pass = [p \in PassIds |-> IdlePass]
  /\ lastPass = <<>>
  /\ query = IdleQuery

SpecOneRunner == InitOneRunner /\ [][Next]_vars

\* Passes over two repositories, each with a single runner.
InitTwoRepositories ==
  /\ now = 0
  /\ env = [lists |-> OneRunnerLists, passes |-> MaxPassesTwoRepositories, samLocal |-> BOOLEAN]
  /\ repositories = TwoRepositories
  /\ repoStore = <<>>
  /\ runnerStore = <<>>
  /\ outageStore = <<>>
  /\ pass = [p \in PassIds |-> IdlePass]
  /\ lastPass = <<>>
  /\ query = IdleQuery

SpecTwoRepositories == InitTwoRepositories /\ [][Next]_vars

\* Passes over one repository whose runner is reported with any raw state.
InitRawStates ==
  /\ now = 0
  /\ env = [lists |-> RawLists, passes |-> MaxPassesRawStates, samLocal |-> BOOLEAN]
  /\ repositories = ConfiguredRepositories
  /\ repoStore = <<>>
  /\ runnerStore = <<>>
  /\ outageStore = <<>>
  /\ pass = [p \in PassIds |-> IdlePass]
  /\ lastPass = <<>>
  /\ query = IdleQuery

SpecRawStates == InitRawStates /\ [][Next]_vars

\* Passes over one repository with a single runner, in which the requests
\* to the store that open and resolve OutageEvents can throw.
InitStoreFailures ==
  /\ now = 0
  /\ env = [lists |-> OneRunnerLists, passes |-> MaxPassesStoreFailures, samLocal |-> BOOLEAN]
  /\ repositories = ConfiguredRepositories
  /\ repoStore = <<>>
  /\ runnerStore = <<>>
  /\ outageStore = <<>>
  /\ pass = [p \in PassIds |-> IdlePass]
  /\ lastPass = <<>>
  /\ query = IdleQuery

NextStoreFailures ==
  \/ Step(1)
  \/ CreateOutageFails(1)
  \/ ResolveOutageFails(1)

SpecStoreFailures == InitStoreFailures /\ [][NextStoreFailures]_vars

\* probe.ts:79-82, 98-100, 106-110, 139, 185, 216 and resolveOutage 425:
\* the get or put of the Repository, the list of the stored runners, the put
\* of a Runner or the put of the resolved OutageEvent throws, and the catch
\* of lines 236-238 gives up the repository.
StoreRequestFails(p) ==
  /\ \/ pass[p].pc \in {"getRepository", "putRepository", "fetchExistingRunners", "putResolved"}
     \/ pass[p].pc = "runner" /\ pass[p].i <= Len(pass[p].runners)
     \/ /\ pass[p].pc = "sweep"
        /\ pass[p].j <= Len(pass[p].existingRunners)
        /\ pass[p].existingRunners[pass[p].j].runnerId \notin pass[p].processedRunnerIds
        /\ pass[p].existingRunners[pass[p].j].status # RunnerStatus_UNKNOWN
  /\ lastPass' =
       IF pass[p].pc = "putResolved"
         THEN Interrupted(p, "resolve")
         ELSE [Finished(p, FALSE) EXCEPT ![<<RepoId(p)>>].fetched =
                 pass[p].pc \in {"fetchExistingRunners", "runner", "sweep"}]
  /\ pass' = [pass EXCEPT ![p] = NextRepository([@ EXCEPT !.failed = @ \cup {pass[p].repoIdx}])]
  /\ UNCHANGED <<now, env, repositories, repoStore, runnerStore, outageStore, query>>

\* Passes over two repositories whose store requests can fail.  An external
\* call that was made returns or fails: a handler that is running takes its
\* next step.  When a pass starts is up to the schedule.
Proceed(p) ==
  /\ pass[p].pc # "idle"
  /\ (Step(p) \/ CreateOutageFails(p) \/ ResolveOutageFails(p) \/ StoreRequestFails(p))

NextTermination ==
  \/ Step(1)
  \/ CreateOutageFails(1)
  \/ ResolveOutageFails(1)
  \/ StoreRequestFails(1)

SpecTermination ==
  InitTwoRepositories /\ [][NextTermination]_vars /\ WF_vars(Proceed(1))

\* Invocations that can overlap: the rule fires every five minutes, the
\* function may run for five minutes and a failed invocation is retried, so
\* a second invocation can start while one is running.  The steps of the
\* two interleave at their awaits.  The second invocation is the one that
\* starts while the first is running.  The rule invokes the deployed
\* function, where AWS_SAM_LOCAL is not set.
InitOverlapping ==
  /\ now = 0
  /\ env = [lists |-> OneIdleRunnerLists, passes |-> MaxPassesOverlapping, samLocal |-> {FALSE}]
  /\ repositories = ConfiguredRepositories
  /\ repoStore = <<>>
  /\ runnerStore = <<>>
  /\ outageStore = <<>>
  /\ pass = [p \in PassIds |-> IdlePass]
  /\ lastPass = <<>>
  /\ query = IdleQuery

NextOverlapping ==
  \/ Step(1)
  \/ (pass[2].pc = "idle" => pass[1].pc # "idle") /\ Step(2)

SpecOverlapping == InitOverlapping /\ [][NextOverlapping]_vars

\* Two configured repositories with the same name, under different owners.
InitSameName ==
  /\ now = 0
  /\ env = [lists |-> OneRunnerLists, passes |-> MaxPassesTwoRepositories, samLocal |-> BOOLEAN]
  /\ repositories = SameNameRepositories
  /\ repoStore = <<>>
  /\ runnerStore = <<>>
  /\ outageStore = <<>>
  /\ pass = [p \in PassIds |-> IdlePass]
  /\ lastPass = <<>>
  /\ query = IdleQuery

SpecSameName == InitSameName /\ [][Next]_vars

\* ------------------------------------------------------------ slash commands
\* The handler's return: the response is the status code together with
\* what the request's locals hold.
Respond(q, statusCode) == [q EXCEPT !.pc = "idle", !.statusCode = statusCode]

\* slack.ts:223-226: a request arrives.
StartQuery ==
  /\ query.pc = "idle"
  /\ query' = [IdleQuery EXCEPT !.pc = "signingSecret"]
  /\ UNCHANGED <<now, env, repositories, repoStore, runnerStore, outageStore, pass, lastPass>>

\* slack.ts:228-233
FetchSigningSecret ==
  /\ query.pc = "signingSecret"
  /\ query' = [query EXCEPT !.pc = "verifySlackRequest"]
  /\ UNCHANGED <<now, env, repositories, repoStore, runnerStore, outageStore, pass, lastPass>>

\* A handler that went on to the store whatever the verification said.
VerifyRequestAndProceed ==
  /\ query.pc = "verifySlackRequest"
  /\ \E samLocal \in env.samLocal, headers \in BOOLEAN, fresh \in BOOLEAN,
        signature \in BOOLEAN :
       query' = [query EXCEPT !.samLocal = samLocal, !.headers = headers,
                              !.fresh = fresh, !.signature = signature,
                              !.pc = "getStatelyClient",
                              !.verified = verifySlackRequest(samLocal, headers,
                                                              fresh, signature)]
  /\ UNCHANGED <<now, env, repositories, repoStore, runnerStore, outageStore, pass, lastPass>>

\* slack.ts:236-243, with what verifySlackRequest reads of the request and
\* of the environment.
VerifyRequest ==
  /\ query.pc = "verifySlackRequest"
  /\ \E samLocal \in env.samLocal, headers \in BOOLEAN, fresh \in BOOLEAN,
        signature \in BOOLEAN :
       LET q == [query EXCEPT !.samLocal = samLocal, !.headers = headers,
                              !.fresh = fresh, !.signature = signature]
       IN  query' = IF verifySlackRequest(samLocal, headers, fresh, signature)
                      THEN [q EXCEPT !.pc = "getStatelyClient", !.verified = TRUE]
                      ELSE Respond(q, 401)
  /\ UNCHANGED <<now, env, repositories, repoStore, runnerStore, outageStore, pass, lastPass>>

\* slack.ts:246-302: the client is built, the body is parsed and the
\* command is chosen; the branches that call the store stop at their first
\* await.
GetStatelyClient ==
  /\ query.pc = "getStatelyClient"
  /\ \E command \in Commands, text \in Texts :
       LET q == [query EXCEPT !.command = command, !.text = text]
       IN  query' = IF command = "/runner-history"
                      THEN IF text = "" THEN Respond(q, 200)
                           ELSE [q EXCEPT !.pc = "getRunner"]
                    ELSE IF command = "/runner-status-all"
                      THEN [q EXCEPT !.pc = "listRunners"]
                    ELSE Respond(q, 200)
  /\ UNCHANGED <<now, env, repositories, repoStore, runnerStore, outageStore, pass, lastPass>>

\* slack.ts:117-131 (getRecentOutagesForRunner)
GetRunner ==
  /\ query.pc = "getRunner"
  /\ LET key == <<SlackRepoId, query.text>>
         q == [query EXCEPT !.reads = Append(@, "Runner")]
     IN  query' = IF key \in DOMAIN runnerStore
                    THEN [q EXCEPT !.pc = "listOutages", !.runner = runnerStore[key]]
                    ELSE Respond([q EXCEPT !.notFound = TRUE], 200)
  /\ UNCHANGED <<now, env, repositories, repoStore, runnerStore, outageStore, pass, lastPass>>

\* slack.ts:133-178 (getRecentOutagesForRunner)
ListOutages ==
  /\ query.pc = "listOutages"
  /\ query' = Respond([query EXCEPT
                 !.reads = Append(@, "OutageEvent"),
                 !.latestOutages = beginListDescending(outageStore, SlackRepoId,
                                                       query.runner.runnerId, HistoryLimit)], 200)
  /\ UNCHANGED <<now, env, repositories, repoStore, runnerStore, outageStore, pass, lastPass>>

\* slack.ts:185-220 (getStatusForRunners)
ListRunners ==
  /\ query.pc = "listRunners"
  /\ query' = Respond([query EXCEPT
                 !.reads = Append(@, "Runner"),
                 !.runners = fetchExistingRunners(runnerStore, SlackRepoId)], 200)
  /\ UNCHANGED <<now, env, repositories, repoStore, runnerStore, outageStore, pass, lastPass>>

\* slack.ts:303-309: a rejected call of the parameter store or of the
\* store ends the request.
QueryFails ==
  /\ query.pc \in {"signingSecret", "getStatelyClient", "getRunner", "listOutages",
                   "listRunners"}
  /\ query' = Respond(query, 500)
  /\ UNCHANGED <<now, env, repositories, repoStore, runnerStore, outageStore, pass, lastPass>>

\* The stores that the slash commands read.  They are as the probe leaves
\* them: a Runner under each seen name, holding the runnerId last reported
\* under it; the OutageEvents of a runner numbered from 1 without a gap,
\* each resolved before the next was opened, the newest possibly open; a
\* runner with an open OutageEvent is stored as offline.
QueryOpen(count, open, runnerId) == runnerId \in open /\ count[runnerId] > 0

QueryRunners(ids, count, open) ==
  [k \in {<<SlackRepoId, n>> : n \in {m \in Names : ids[m] # 0}} |->
     [repoId |-> SlackRepoId, runnerId |-> ids[k[2]], name |-> k[2],
      status |-> IF QueryOpen(count, open, ids[k[2]])
                   THEN RunnerStatus_OFFLINE ELSE RunnerStatus_IDLE,
      lastSeenAt |-> 2 * MaxOutages + 2, firstSeenAt |-> 1]]

QueryOutages(count, open) ==
  [k \in {q \in {SlackRepoId} \X RunnerIds \X (1..MaxOutages) : q[3] <= count[q[2]]} |->
     [repoId |-> SlackRepoId, runnerId |-> k[2], outageId |-> k[3],
      status |-> RunnerStatus_OFFLINE, startedAt |-> 2 * k[3],
      resolvedAt |-> IF k[3] = count[k[2]] /\ k[2] \in open THEN 0 ELSE 2 * k[3] + 1,
      notificationSent |-> TRUE]]

InitQuery ==
  /\ now = 2 * MaxOutages + 2
  /\ env = [lists |-> OneRunnerLists, passes |-> 2 * MaxOutages + 2, samLocal |-> BOOLEAN]
  /\ repositories = << [owner |-> "o", name |-> SlackRepoId] >>
  /\ repoStore = (<<SlackRepoId>> :> [repoId |-> SlackRepoId, owner |-> "o",
                                      name |-> SlackRepoId, isActive |-> TRUE,
                                      lastSyncedAt |-> 2 * MaxOutages + 2])
  /\ \E ids \in [Names -> 0..MaxRunnerId], count \in [RunnerIds -> 0..MaxOutages],
        open \in SUBSET RunnerIds :
       /\ runnerStore = QueryRunners(ids, count, open)
       /\ outageStore = QueryOutages(count, open)
  /\ pass = [p \in PassIds |-> IdlePass]
  /\ lastPass = <<>>
  /\ query = IdleQuery

NextQuery ==
  \/ StartQuery
  \/ FetchSigningSecret
  \/ VerifyRequest
  \/ GetStatelyClient
  \/ GetRunner
  \/ ListOutages
  \/ ListRunners
  \/ QueryFails

SpecQuery == InitQuery /\ [][NextQuery]_vars

\* ------------------------------------------------------------ properties
Healthy(status) ==
  status \in {RunnerStatus_ONLINE, RunnerStatus_BUSY, RunnerStatus_IDLE}

Unhealthy(status) == status \in UNHEALTHY_STATUSES

\* The (repository, runner) pairs that have an OutageEvent.
OutageScopes == {<<k[1], k[2]>> : k \in DOMAIN outageStore}

\* The OutageEvents of a runner whose resolvedAt is absent.
OpenOutages(repoId, runnerId) ==
  {o \in OutagesOf(outageStore, repoId, runnerId) : o.resolvedAt = 0}

\* No invocation is running.
AtRest == \A p \in PassIds : pass[p].pc = "idle"

\* C1: once the passes run so far have returned, every (repository, runner)
\* pair has at most one OutageEvent whose resolvedAt is absent.
C1_AtMostOneOpenOutage ==
  AtRest => \A s \in OutageScopes : Cardinality(OpenOutages(s[1], s[2])) <= 1

\* The OutageEvents opened by invocation p for a runner.
OpenedFor(p, repoId, runnerId) ==
  {k \in pass[p].opened : k[1] = repoId /\ k[2] = runnerId}

\* The dispatch attempts of one kind made by invocation p for a runner.
DispatchesFor(p, kind, repoId, runnerId) ==
  {k \in DOMAIN pass[p].dispatches :
     /\ pass[p].dispatches[k].kind = kind
     /\ pass[p].dispatches[k].repoId = repoId
     /\ pass[p].dispatches[k].runnerId = runnerId}

\* Invocation p has returned.
Returned(p) == pass[p].pc = "idle" /\ pass[p].result # 0

\* C2: a pass in which the status of a stored runner goes from healthy to
\* unhealthy has created exactly one OutageEvent for that runner when it
\* returns, and when the alert for an OutageEvent is about to be dispatched
\* the event is stored with notificationSent = false, resolvedAt absent and
\* no dispatch attempted for that runner yet.
C2_DegradationOpensOneOutage ==
  \A p \in PassIds :
    /\ Returned(p) =>
         \A w \in pass[p].writes :
           Healthy(w.from) /\ Unhealthy(w.to)
             => Cardinality(OpenedFor(p, w.repoId, w.runnerId)) = 1
    /\ pass[p].pc = "sendSlackNotification" =>
         LET o == pass[p].outage
         IN  /\ OutageKey(o) \in DOMAIN outageStore
             /\ outageStore[OutageKey(o)] = o
             /\ ~o.notificationSent
             /\ o.resolvedAt = 0
             /\ DispatchesFor(p, "alert", o.repoId, o.runnerId) = {}

\* C3: while a runner stays unhealthy, a change between unhealthy statuses
\* (OFFLINE to UNKNOWN, UNKNOWN to OFFLINE) opens no additional OutageEvent:
\* no OutageEvent is about to be created for a runner whose prior status was
\* unhealthy and whose unhealthy period has an open OutageEvent already.
C3_NoOutageWithinUnhealthyPeriod ==
  \A p \in PassIds :
    pass[p].pc = "createOutage" /\ Unhealthy(pass[p].oldStatus)
      => OpenOutages(pass[p].runner.repoId, pass[p].runner.runnerId) = {}

\* C4: when the status of a stored runner has gone from unhealthy to healthy,
\* the resolve that follows sets resolvedAt on the open OutageEvent of that
\* runner with the greatest outageId (the most recently created one), and
\* the write changes no other OutageEvent.
C4_ResolvesMostRecentOpenOutage ==
  [][\A p \in PassIds :
       /\ pass[p].pc = "resolveOutage" =>
            LET open == OpenOutages(RepoId(p), pass[p].runners[pass[p].i].id)
            IN  IF open = {}
                  THEN pass'[p].pc # "putResolved"
                  ELSE /\ pass'[p].pc = "putResolved"
                       /\ pass'[p].item \in open
                       /\ \A o \in open : o.outageId <= pass'[p].item.outageId
       /\ pass[p].pc = "putResolved" =>
            /\ DOMAIN outageStore' = DOMAIN outageStore
            /\ \A k \in DOMAIN outageStore :
                 outageStore'[k] = IF k = OutageKey(pass[p].item)
                                     THEN [outageStore[k] EXCEPT !.resolvedAt = now]
                                     ELSE outageStore[k]]_vars

\* C5: a pass that returns after fetching, for a repository, the remote list
\* that the pass before it fetched and processed to the end, under the same
\* configuration, has created no OutageEvent and attempted no dispatch for
\* that repository.
C5_SecondPassIdempotent ==
  \A p \in PassIds :
    Returned(p) /\ pass[p].failed = {} =>
      \A repoId \in pass[p].sameAsLast :
        /\ \A k \in pass[p].opened : k[1] # repoId
        /\ \A k \in DOMAIN pass[p].dispatches : pass[p].dispatches[k].repoId # repoId

\* C6: a runner that was stored and absent from the remote list in the pass
\* before, and is stored and absent again in this pass, gets no write to its
\* record, no OutageEvent and no dispatch in this pass.
C6_SecondAbsenceIsNoOp ==
  \A p \in PassIds :
    Returned(p) =>
      \A r \in pass[p].stored :
        /\ <<r.repoId, r.runnerId>> \in pass[p].absentLast
        /\ <<r.repoId, r.runnerId>> \notin pass[p].reported
        => /\ \A w \in pass[p].writes : ~(w.repoId = r.repoId /\ w.runnerId = r.runnerId)
           /\ OpenedFor(p, r.repoId, r.runnerId) = {}
           /\ DispatchesFor(p, "alert", r.repoId, r.runnerId) = {}
           /\ DispatchesFor(p, "recovery", r.repoId, r.runnerId) = {}

\* The runner ids of the remote list that invocation p is working on.
RemoteIds(p) == {pass[p].runners[k].id : k \in DOMAIN pass[p].runners}

\* C7: the lastSeenAt stored under a runner key changes, or is first stored,
\* only by a step of the remote-diff phase of a pass whose remote list
\* contains the runner of the record; every other step, the sweep of a
\* missing runner among them, leaves the lastSeenAt of every stored record
\* as it is.
C7_LastSeenAtOnlyWhenObserved ==
  [][\A k \in DOMAIN runnerStore' :
       (k \notin DOMAIN runnerStore
          \/ runnerStore[k].lastSeenAt # runnerStore'[k].lastSeenAt)
       => \E p \in PassIds :
            /\ pass[p].pc = "runner"
            /\ pass'[p] # pass[p]
            /\ runnerStore'[k].runnerId \in RemoteIds(p)]_vars

\* C8: when a pass returns, every runner it read from the store and did not
\* find in the remote list has status UNKNOWN; if the status read was
\* healthy the pass has opened exactly one OutageEvent, of status UNKNOWN,
\* for it and, with a notification endpoint configured, attempted an alert;
\* if the status read was OFFLINE the pass has opened no OutageEvent for it.
C8_SweepOfMissingRunner ==
  \A p \in PassIds :
    Returned(p) =>
      \A r \in pass[p].stored :
        <<r.repoId, r.runnerId>> \notin pass[p].reported =>
          /\ RunnerKey(r) \in DOMAIN runnerStore
          /\ runnerStore[RunnerKey(r)].status = RunnerStatus_UNKNOWN
          /\ Healthy(r.status) =>
               /\ Cardinality(OpenedFor(p, r.repoId, r.runnerId)) = 1
               /\ \A k \in OpenedFor(p, r.repoId, r.runnerId) :
                    outageStore[k].status = RunnerStatus_UNKNOWN
               /\ pass[p].slackWebhook =>
                    DispatchesFor(p, "alert", r.repoId, r.runnerId) # {}
          /\ r.status = RunnerStatus_OFFLINE =>
               OpenedFor(p, r.repoId, r.runnerId) = {}

\* C9: every runner record that a pass creates for a remote runner without a
\* stored match has firstSeenAt = lastSeenAt, and when its status is
\* unhealthy the pass has, on return, opened exactly one OutageEvent for the
\* runner and, with a notification endpoint configured, attempted an alert.
C9_NewRunnerRecord ==
  \A p \in PassIds :
    \A w \in pass[p].writes :
      w.phase = "create" =>
        /\ w.firstSeenAt = w.lastSeenAt
        /\ Returned(p) /\ Unhealthy(w.to) =>
             /\ Cardinality(OpenedFor(p, w.repoId, w.runnerId)) = 1
             /\ pass[p].slackWebhook =>
                  DispatchesFor(p, "alert", w.repoId, w.runnerId) # {}

\* C10: a pass with a notification endpoint that returns without giving up a
\* repository has attempted, for every runner record it wrote, exactly one
\* alert and no recovery message when the status went from healthy to
\* unhealthy, exactly one recovery message and no alert when it went from
\* unhealthy to healthy, and no dispatch when the health did not change.
C10_OneDispatchPerTransition ==
  \A p \in PassIds :
    Returned(p) /\ pass[p].failed = {} /\ pass[p].slackWebhook =>
      \A w \in pass[p].writes :
        w.phase # "create" =>
          LET alerts     == Cardinality(DispatchesFor(p, "alert", w.repoId, w.runnerId))
              recoveries == Cardinality(DispatchesFor(p, "recovery", w.repoId, w.runnerId))
          IN  /\ Healthy(w.from) /\ Unhealthy(w.to) => alerts = 1 /\ recoveries = 0
              /\ Unhealthy(w.from) /\ Healthy(w.to) => alerts = 0 /\ recoveries = 1
              /\ Healthy(w.from) = Healthy(w.to) => alerts = 0 /\ recoveries = 0

\* The alert dispatch attempts that invocation p made for the OutageEvent
\* stored under `key`.
AlertsOf(p, key) ==
  {k \in DOMAIN pass[p].dispatches :
     /\ pass[p].dispatches[k].kind = "alert"
     /\ <<pass[p].dispatches[k].repoId, pass[p].dispatches[k].runnerId,
          pass[p].dispatches[k].outageId>> = key}

C12_FailedDispatchDoesNotStopRepository ==
  \A p \in PassIds :
    \A k \in DOMAIN pass[p].dispatches :
      ~pass[p].dispatches[k].ok =>
        /\ \A i \in pass[p].failed :
             repositories[i].name # pass[p].dispatches[k].repoId
        /\ Returned(p) =>
             /\ <<pass[p].dispatches[k].repoId>> \in DOMAIN lastPass
             /\ lastPass[<<pass[p].dispatches[k].repoId>>].complete

\* C13: a pass takes the configured repositories one at a time in list
\* order, from the first to the last, each once: the position in the list
\* moves only to the next entry, a step that gives a repository up moves on
\* to the next entry as well, and the pass returns only from the last one.
C13_EveryRepositoryAttemptedInOrder ==
  [][\A p \in PassIds :
       /\ pass'[p].repoIdx # pass[p].repoIdx =>
            \/ /\ pass'[p].repoIdx = pass[p].repoIdx + 1
               /\ pass'[p].repoIdx <= Len(repositories)
               /\ pass'[p].pc = "getRepository"
            \/ /\ pass[p].repoIdx = Len(repositories)
               /\ pass'[p].repoIdx = 0
               /\ pass'[p].pc = "idle"
       /\ pass[p].pc # "idle" /\ pass'[p].pc = "idle" =>
            pass[p].repoIdx = Len(repositories)
       /\ pass[p].pc # "idle" /\ pass'[p].failed # pass[p].failed =>
            /\ pass'[p].failed = pass[p].failed \cup {pass[p].repoIdx}
            /\ pass'[p].repoIdx # pass[p].repoIdx]_vars

\* A pass has returned after giving up its first repository and processing
\* its second one to the end, a runner record written.
C13_Witness ==
  \E p \in PassIds :
    /\ Returned(p)
    /\ Len(repositories) > 1
    /\ pass[p].failed = {1}
    /\ <<repositories[2].name>> \in DOMAIN lastPass
    /\ lastPass[<<repositories[2].name>>].complete
    /\ \E w \in pass[p].writes : w.repoId = repositories[2].name

\* The handler got past the loading of its configuration (probe.ts:48-68).
ConfigurationLoaded(p) ==
  ~ConfigurationFails(pass[p].samLocal, pass[p].required,
                      pass[p].githubToken, pass[p].slackWebhook)

\* C14: a pass that loaded its configuration returns success, whatever
\* repositories it gave up and whatever dispatches failed.
C14_SuccessOnceConfigurationLoaded ==
  \A p \in PassIds :
    Returned(p) /\ ConfigurationLoaded(p) => pass[p].result = StatusOk

\* A pass has returned success after giving up a repository and after a
\* failed alert dispatch.
C14_Witness ==
  \E p \in PassIds :
    /\ Returned(p)
    /\ ConfigurationLoaded(p)
    /\ pass[p].result = StatusOk
    /\ pass[p].failed # {}
    /\ \E k \in DOMAIN pass[p].dispatches : ~pass[p].dispatches[k].ok

\* Invocation p has been started.
Started(p) == pass[p].pc # "idle" \/ pass[p].result # 0

\* C15: a pass that finds a required configuration value missing (the store
\* id or the repository list, or the GitHub token) processes no repository:
\* it has returned failure without reading or writing a Repository, Runner
\* or OutageEvent item and without a dispatch attempt.
C15_MissingConfigurationAbortsPass ==
  \A p \in PassIds :
    Started(p) /\ (~pass[p].required \/ ~pass[p].githubToken) =>
      /\ pass[p].pc = "idle"
      /\ pass[p].result = StatusError
      /\ pass[p].repository = NoRepository
      /\ pass[p].stored = {}
      /\ pass[p].writes = {}
      /\ pass[p].opened = {}
      /\ pass[p].resolved = {}
      /\ pass[p].dispatches = <<>>

\* C16: a pass whose configuration lacks nothing but the notification
\* endpoint attempts no dispatch, and when it returns it reports success
\* and has given up no repository whose remote list it fetched.
C16_NoEndpointNoDispatchNoFailure ==
  \A p \in PassIds :
    Started(p) /\ pass[p].required /\ pass[p].githubToken /\ ~pass[p].slackWebhook =>
      /\ pass[p].dispatches = <<>>
      /\ Returned(p) =>
           /\ pass[p].result = StatusOk
           /\ \A i \in pass[p].failed :
                ~lastPass[<<repositories[i].name>>].fetched

\* C17: while a pass is in the sweep of a repository, the loop over the
\* remote list is over and every remote runner has had its record written;
\* and no pass has both written the record of a runner from the remote list
\* and swept a record of the same runner id of the same repository.
C17_SweepAfterRemoteDiff ==
  \A p \in PassIds :
    /\ pass[p].pc = "sweep" \/ pass[p].caller = "sweep" =>
         /\ pass[p].i > Len(pass[p].runners)
         /\ RemoteIds(p) \subseteq pass[p].processedRunnerIds
         /\ \A k \in DOMAIN pass[p].runners :
              \E w \in pass[p].writes :
                /\ w.phase \in {"update", "create"}
                /\ w.repoId = RepoId(p)
                /\ w.runnerId = pass[p].runners[k].id
    /\ \A w, u \in pass[p].writes :
         w.phase = "sweep" /\ u.phase \in {"update", "create"} =>
           ~(w.repoId = u.repoId /\ w.runnerId = u.runnerId)

\* A pass has returned after updating one stored runner from the remote list
\* and sweeping another, missing one.
C17_Witness ==
  \E p \in PassIds :
    /\ Returned(p)
    /\ \E w, u \in pass[p].writes :
         /\ w.phase = "sweep"
         /\ u.phase = "update"
         /\ w.repoId = u.repoId
         /\ w.runnerId # u.runnerId

\* The reference mapping of the status classifier.
ReferenceStatus(rawState, busy) ==
  CASE rawState # "online"        -> RunnerStatus_OFFLINE
    [] rawState = "online" /\ busy  -> RunnerStatus_BUSY
    [] rawState = "online" /\ ~busy -> RunnerStatus_IDLE

\* C18: the status that a pass writes for a runner of its remote list is
\* the reference mapping of the descriptor's raw state and busy flag, one of
\* OFFLINE, BUSY and IDLE, for every raw state and either busy flag; so is
\* the status the handler holds while it handles the runner's transition.
C18_ClassifierIsReferenceMapping ==
  \A p \in PassIds :
    pass[p].pc # "idle" =>
      /\ \A w \in pass[p].writes :
           w.phase \in {"update", "create"} /\ w.repoId = RepoId(p) =>
             \A k \in DOMAIN pass[p].runners :
               pass[p].runners[k].id = w.runnerId =>
                 /\ w.to = ReferenceStatus(pass[p].runners[k].status, pass[p].runners[k].busy)
                 /\ w.to \in {RunnerStatus_OFFLINE, RunnerStatus_BUSY, RunnerStatus_IDLE}
      /\ pass[p].caller = "runner" =>
           pass[p].status = ReferenceStatus(pass[p].runners[pass[p].i].status,
                                            pass[p].runners[pass[p].i].busy)

\* A pass has written OFFLINE for a runner reported busy with a raw state
\* that differs from "online" only by case.
C18_Witness ==
  \E p \in PassIds :
    /\ pass[p].pc = "sweep"
    /\ \E k \in DOMAIN pass[p].runners :
         /\ pass[p].runners[k].status = "Online"
         /\ pass[p].runners[k].busy
         /\ \E w \in pass[p].writes :
              /\ w.runnerId = pass[p].runners[k].id
              /\ w.phase \in {"update", "create"}
              /\ w.to = RunnerStatus_OFFLINE

\* The statuses stored for a runner id of a repository.
StoredStatuses(repoId, runnerId) ==
  {runnerStore[k].status :
     k \in {q \in DOMAIN runnerStore : q[1] = repoId /\ runnerStore[q].runnerId = runnerId}}

\* C19: when a pass ends the processing of a repository without a failure,
\* every transition that an earlier, interrupted processing left with its
\* runner status written and its OutageEvent request not made is made up
\* for: a runner left unhealthy without its outage opened has an open
\* OutageEvent if it is still unhealthy, and a runner left healthy without
\* its outage resolved has no open OutageEvent if it is still healthy.
C19_NextPassCompletesInterruptedWork ==
  [][\A p \in PassIds :
       (/\ pass[p].pc = "sweep"
        /\ pass[p].j > Len(pass[p].existingRunners)
        /\ pass'[p] # pass[p]
        /\ <<RepoId(p)>> \in DOMAIN lastPass)
       => \A x \in lastPass[<<RepoId(p)>>].interrupted :
            /\ (x.kind = "open" /\ \A st \in StoredStatuses(x.repoId, x.runnerId) : Unhealthy(st))
                 => OpenOutages(x.repoId, x.runnerId) # {}
            /\ (x.kind = "resolve" /\ \A st \in StoredStatuses(x.repoId, x.runnerId) : Healthy(st))
                 => OpenOutages(x.repoId, x.runnerId) = {}]_vars

\* The healthy-to-unhealthy transitions of stored runners that invocation p
\* has written and for which the handler opens an OutageEvent: those of the
\* remote-diff phase, and those of the sweep when a webhook is configured.
Degradations(p) ==
  {w \in pass[p].writes :
     /\ Healthy(w.from) /\ Unhealthy(w.to)
     /\ w.phase = "update" \/ (w.phase = "sweep" /\ pass[p].slackWebhook)}

\* C20: when two invocations have both read the same stored record of a
\* healthy runner and both written its transition to an unhealthy status,
\* then once both have returned the runner has two OutageEvents with
\* resolvedAt absent, one opened by each, and each invocation has attempted
\* an alert for its own.
C20_OverlapOpensTwoOutages ==
  AtRest =>
    \A w \in Degradations(1), u \in Degradations(2) :
      (/\ w.repoId = u.repoId /\ w.runnerId = u.runnerId
       /\ \E r \in pass[1].stored \cap pass[2].stored :
            r.repoId = w.repoId /\ r.runnerId = w.runnerId /\ Healthy(r.status))
      => /\ Cardinality(OpenOutages(w.repoId, w.runnerId)) >= 2
         /\ \E a \in OpenedFor(1, w.repoId, w.runnerId), b \in OpenedFor(2, w.repoId, w.runnerId) :
              /\ a # b
              /\ outageStore[a].resolvedAt = 0 /\ outageStore[b].resolvedAt = 0
              /\ AlertsOf(1, a) # {} /\ AlertsOf(2, b) # {}

\* Two invocations that read the same healthy runner have both returned:
\* the runner has two open OutageEvents and an alert was attempted for each.
C20_Witness ==
  /\ AtRest
  /\ \E w \in Degradations(1), u \in Degradations(2) :
       /\ w.repoId = u.repoId /\ w.runnerId = u.runnerId
       /\ \E r \in pass[1].stored \cap pass[2].stored :
            r.repoId = w.repoId /\ r.runnerId = w.runnerId /\ Healthy(r.status)
       /\ Cardinality(OpenOutages(w.repoId, w.runnerId)) = 2
       /\ Len(pass[1].dispatches) = 1 /\ pass[1].dispatches[1].kind = "alert"
       /\ Len(pass[2].dispatches) = 1 /\ pass[2].dispatches[1].kind = "alert"

\* ------------------------------------------------------------ slash commands: properties
\* The request has been answered.
Answered == query.pc = "idle" /\ query.statusCode # 0

\* C21: the history query for a runner returns at most 5 OutageEvents of
\* that runner, namely those with the greatest outageId, newest first; for
\* a runner name without a stored record it answers that the runner was not
\* found and reads no OutageEvent.
C21_HistoryIsNewestFive ==
  (/\ Answered /\ query.statusCode = 200
   /\ query.command = "/runner-history" /\ query.text # "") =>
    LET key == <<SlackRepoId, query.text>>
        got == query.latestOutages
    IN  IF key \notin DOMAIN runnerStore
          THEN /\ query.notFound
               /\ got = <<>>
               /\ \A k \in DOMAIN query.reads : query.reads[k] # "OutageEvent"
          ELSE LET all == OutagesOf(outageStore, SlackRepoId, runnerStore[key].runnerId)
               IN  /\ ~query.notFound
                   /\ Len(got) <= 5
                   /\ Len(got) = (IF Cardinality(all) < 5 THEN Cardinality(all) ELSE 5)
                   /\ \A k \in DOMAIN got : got[k] \in all
                   /\ \A k, m \in DOMAIN got : k < m => got[k].outageId > got[m].outageId
                   /\ \A o \in all :
                        (\A k \in DOMAIN got : got[k] # o) =>
                          \A k \in DOMAIN got : o.outageId < got[k].outageId

\* A history answer for a runner that has more than 5 OutageEvents.
C21_Witness ==
  /\ Answered /\ query.statusCode = 200
  /\ query.command = "/runner-history" /\ query.text # ""
  /\ <<SlackRepoId, query.text>> \in DOMAIN runnerStore
  /\ Len(query.latestOutages) = 5
  /\ Cardinality(OutagesOf(outageStore, SlackRepoId, query.runner.runnerId)) > 5

\* C22: a request reads stored data only after verifySlackRequest has
\* returned true; a request whose verification returns false is answered
\* with 401 and reads nothing; and no step of a request changes the store.
C22_ReadsOnlyAfterVerification ==
  [][LET accepted == verifySlackRequest(query'.samLocal, query'.headers,
                                      query'.fresh, query'.signature)
     IN  /\ query'.reads # <<>> => query'.verified /\ accepted
         /\ query.pc = "verifySlackRequest" /\ query' # query /\ ~accepted =>
              /\ query'.pc = "idle" /\ query'.statusCode = 401
              /\ query'.reads = <<>>
         /\ query'.statusCode = 401 => ~accepted /\ query'.reads = <<>>
         /\ query' # query =>
              UNCHANGED <<repoStore, runnerStore, outageStore>>]_vars

\* A request that failed the verification and was answered with 401.
C22_Witness ==
  /\ Answered /\ query.statusCode = 401
  /\ ~query.samLocal /\ ~query.signature
  /\ query.reads = <<>>

\* ------------------------------------------------------------ resolve
\* C23: resolveOutage looks at the one OutageEvent of the runner with the
\* greatest outageId.  If it has no resolvedAt, the call sets resolvedAt on
\* it, changes nothing else and returns its outageId; if it is resolved, or
\* the runner has no OutageEvent, the call changes no record and returns 0,
\* whether or not an older OutageEvent of the runner is open.
C23_ResolveInspectsNewestOnly ==
  [][\A p \in PassIds :
       /\ pass[p].pc = "resolveOutage" /\ pass'[p] # pass[p] =>
            LET all == OutagesOf(outageStore, RepoId(p), pass[p].runners[pass[p].i].id)
                newest == {o \in all : \A q \in all : q.outageId <= o.outageId}
            IN  /\ UNCHANGED <<repoStore, runnerStore, outageStore>>
                /\ IF \E o \in newest : o.resolvedAt = 0
                      THEN /\ pass'[p].pc = "putResolved"
                           /\ pass'[p].item \in newest
                      ELSE /\ pass'[p].pc # "putResolved"
                           /\ pass'[p].lastOutageId = 0
                           /\ pass'[p].resolved = pass[p].resolved
       /\ pass[p].pc = "putResolved" /\ pass'[p] # pass[p] =>
            /\ UNCHANGED <<repoStore, runnerStore>>
            /\ DOMAIN outageStore' = DOMAIN outageStore
            /\ \A k \in DOMAIN outageStore :
                 outageStore'[k] = IF k = OutageKey(pass[p].item)
                                     THEN [outageStore[k] EXCEPT !.resolvedAt = now]
                                     ELSE outageStore[k]
            /\ pass'[p].resolved = pass[p].resolved \cup {OutageKey(pass[p].item)}
            \* the returned value is held while the recovery message is awaited
            /\ pass'[p].pc = "sendSlackRecoveryNotification" =>
                 /\ pass'[p].lastOutageId = pass[p].item.outageId
                 /\ pass'[p].lastOutageId # 0]_vars

\* A resolve has returned 0 for a runner whose newest OutageEvent is
\* resolved while an older one is open.
C23_Witness ==
  \E p \in PassIds :
    /\ pass[p].pc = "sendSlackRecoveryNotification"
    /\ pass[p].lastOutageId = 0
    /\ OpenOutages(RepoId(p), pass[p].runners[pass[p].i].id) # {}

\* C24: every recovery message that an invocation has posted carries the
\* outageId of an OutageEvent of that runner on which the same invocation
\* has set resolvedAt; none carries 0.
C24_RecoveryCarriesResolvedOutage ==
  \A p \in PassIds :
    \A k \in DOMAIN pass[p].dispatches :
      LET d == pass[p].dispatches[k]
      IN  d.kind = "recovery" /\ d.ok =>
            /\ d.outageId # 0
            /\ <<d.repoId, d.runnerId, d.outageId>> \in pass[p].resolved

\* ------------------------------------------------------------ stored statuses
\* C25: every stored runner has status OFFLINE, BUSY, IDLE or UNKNOWN, never
\* ONLINE.  A step that stores or changes a Runner record writes UNKNOWN
\* only in the sweep, for a runner that is not in the remote list of the
\* pass, and writes OFFLINE, BUSY or IDLE only in the remote-diff phase, as
\* the class of the descriptor that the remote list holds for that runner.
C25_StoredStatusAndItsOrigin ==
  [][\A key \in DOMAIN runnerStore' :
       LET r == runnerStore'[key]
       IN  /\ r.status \in {RunnerStatus_OFFLINE, RunnerStatus_BUSY,
                             RunnerStatus_IDLE, RunnerStatus_UNKNOWN}
           /\ r.status # RunnerStatus_ONLINE
           /\ (key \notin DOMAIN runnerStore \/ runnerStore[key] # r) =>
                \E p \in PassIds :
                  /\ pass'[p] # pass[p]
                  /\ IF r.status = RunnerStatus_UNKNOWN
                        THEN /\ pass[p].pc = "sweep"
                             /\ r.runnerId \notin RemoteIds(p)
                        ELSE /\ pass[p].pc = "runner"
                             /\ \E k \in DOMAIN pass[p].runners :
                                  /\ pass[p].runners[k].id = r.runnerId
                                  /\ r.status = ReferenceStatus(pass[p].runners[k].status,
                                                                pass[p].runners[k].busy)]_vars

\* A record that the remote-diff phase had classified as BUSY is stored as
\* UNKNOWN by the sweep of a later pass.
C25_Witness ==
  \E key \in DOMAIN runnerStore, p \in PassIds :
    /\ runnerStore[key].status = RunnerStatus_UNKNOWN
    /\ \E w \in pass[p].writes :
         /\ w.phase = "sweep" /\ w.from = RunnerStatus_BUSY
         /\ w.repoId = runnerStore[key].repoId /\ w.runnerId = runnerStore[key].runnerId

\* ------------------------------------------------------------ repositories
\* C26: a pass that starts on a repository stores its Repository record
\* before it fetches the remote list: a new one with isActive = true when
\* none is stored, otherwise the stored one with only lastSyncedAt changed,
\* in both cases with lastSyncedAt = now, later than before.  The fetch,
\* failing or not, leaves that record as it is.  No step removes a
\* Repository record, lowers its lastSyncedAt or stores isActive = false.
C26_RepositoryEnsuredBeforeFetch ==
  [][/\ \A p \in PassIds :
          /\ pass[p].pc = "putRepository" /\ pass'[p] # pass[p] =>
               LET cfg == repositories[pass[p].repoIdx]
                   key == <<cfg.name>>
               IN  /\ key \in DOMAIN repoStore'
                   /\ IF key \in DOMAIN repoStore
                         THEN /\ repoStore[key].lastSyncedAt < now
                              /\ repoStore'[key] = [repoStore[key] EXCEPT !.lastSyncedAt = now]
                         ELSE repoStore'[key] = [repoId |-> cfg.name, owner |-> cfg.owner,
                                                 name |-> cfg.name, isActive |-> TRUE,
                                                 lastSyncedAt |-> now]
                   /\ pass'[p].pc = "fetchGitHubRunners"
          /\ pass[p].pc = "fetchGitHubRunners" /\ pass'[p] # pass[p] =>
               LET key == <<repositories[pass[p].repoIdx].name>>
               IN  /\ key \in DOMAIN repoStore
                   /\ repoStore[key].lastSyncedAt = now
                   /\ repoStore' = repoStore
     /\ \A key \in DOMAIN repoStore :
          /\ key \in DOMAIN repoStore'
          /\ repoStore'[key].isActive
          /\ repoStore'[key].lastSyncedAt >= repoStore[key].lastSyncedAt]_vars

\* The second pass has refreshed the Repository record stored by the first
\* one, and its fetch of that repository has failed.
C26_Witness ==
  \E p \in PassIds, key \in DOMAIN repoStore :
    /\ Returned(p) /\ now = 2
    /\ key \in DOMAIN lastPass /\ ~lastPass[key].fetched
    /\ repoStore[key].lastSyncedAt = 2
    /\ pass[p].failed # {}
    /\ \E k \in DOMAIN runnerStore : k[1] = key[1] /\ runnerStore[k].firstSeenAt = 1

\* ------------------------------------------------------------ runner records
\* C27: the put for a matched runner stores the record that was read with
\* only name, status and lastSeenAt changed (enabled, os and labels are not
\* modelled).  No step changes the runnerId, repoId or firstSeenAt of a
\* stored Runner record or lowers its lastSeenAt, and every stored record
\* has lastSeenAt >= firstSeenAt.
C27_RunnerRecordFrame ==
  [][/\ \A p \in PassIds :
          (/\ pass[p].pc = "runner" /\ pass'[p] # pass[p]
           /\ pass[p].i <= Len(pass[p].runners)
           /\ FindExisting(pass[p].existingRunners, pass[p].runners[pass[p].i].id) # 0) =>
            LET k == FindExisting(pass[p].existingRunners, pass[p].runners[pass[p].i].id)
                read == pass[p].existingRunners[k]
                put == pass'[p].existingRunners[k]
            IN  /\ RunnerKey(put) \in DOMAIN runnerStore'
                /\ runnerStore'[RunnerKey(put)] = put
                /\ put.runnerId = read.runnerId
                /\ put.repoId = read.repoId
                /\ put.firstSeenAt = read.firstSeenAt
                /\ put.lastSeenAt = now
     /\ \A key \in DOMAIN runnerStore :
          /\ key \in DOMAIN runnerStore'
          /\ runnerStore'[key].runnerId = runnerStore[key].runnerId
          /\ runnerStore'[key].repoId = runnerStore[key].repoId
          /\ runnerStore'[key].firstSeenAt = runnerStore[key].firstSeenAt
          /\ runnerStore'[key].lastSeenAt >= runnerStore[key].lastSeenAt
     /\ \A key \in DOMAIN runnerStore' :
          runnerStore'[key].lastSeenAt >= runnerStore'[key].firstSeenAt]_vars

\* ------------------------------------------------------------ endpoint independence
\* Whether a pass with a notification endpoint opens an OutageEvent after
\* the Runner put that the log entry w records: for a matched runner when
\* the new status is unhealthy and differs from the old one, for a new
\* runner when its status is unhealthy, for a swept runner when the old
\* status was healthy.
OpensWithEndpoint(w) ==
  CASE w.phase = "update" -> Unhealthy(w.to) /\ w.to # w.from
    [] w.phase = "create" -> Unhealthy(w.to)
    [] w.phase = "sweep"  -> Healthy(w.from)

\* C28: after every Runner put, of a matched, a new or a swept runner, the
\* pass goes on to open an OutageEvent exactly when a pass with a
\* notification endpoint would, whether or not it has an endpoint itself.
C28_OutageOpeningIgnoresEndpoint ==
  [][\A p \in PassIds :
       \A w \in pass'[p].writes \ pass[p].writes :
         (pass'[p].pc = "createOutage") <=> OpensWithEndpoint(w)]_vars

\* ------------------------------------------------------------ outages and statuses
\* C29: when a pass has returned without giving up a repository, every
\* runner that one of its remote lists held with a healthy status has no
\* OutageEvent whose resolvedAt is absent.
C29_HealthyRunnerHasNoOpenOutage ==
  \A p \in PassIds :
    Returned(p) /\ pass[p].failed = {} =>
      \A w \in pass[p].writes :
        w.phase \in {"update", "create"} /\ Healthy(w.to) =>
          OpenOutages(w.repoId, w.runnerId) = {}

\* C30: when a pass has returned, whether or not it gave up a repository,
\* every stored runner with an unhealthy status has at least one OutageEvent
\* whose resolvedAt is absent.
C30_UnhealthyRunnerHasOpenOutage ==
  \A p \in PassIds :
    Returned(p) =>
      \A key \in DOMAIN runnerStore :
        Unhealthy(runnerStore[key].status) =>
          OpenOutages(runnerStore[key].repoId, runnerStore[key].runnerId) # {}

\* ------------------------------------------------------------ resolved outages
\* C31: no step removes an OutageEvent that has resolvedAt set or stores
\* another resolvedAt, or none, for it: not the put that sets
\* notificationSent after a dispatch, and not a put of an invocation that
\* runs at the same time.
C31_ResolvedAtIsFinal ==
  [][\A key \in DOMAIN outageStore :
       outageStore[key].resolvedAt # 0 =>
         /\ key \in DOMAIN outageStore'
         /\ outageStore'[key].resolvedAt = outageStore[key].resolvedAt]_vars

\* ------------------------------------------------------------ runner keys
\* C32: within a repository the store holds at most one Runner record for a
\* runnerId, also after a runner was reported under a new name.
C32_OneRecordPerRunnerId ==
  \A k1, k2 \in DOMAIN runnerStore :
    (/\ runnerStore[k1].repoId = runnerStore[k2].repoId
     /\ runnerStore[k1].runnerId = runnerStore[k2].runnerId) => k1 = k2

\* C33: a Runner put of the sweep leaves every record that the remote-diff
\* phase of the same pass has written as that phase wrote it, also when a
\* runner of the remote list has the name of a stored runner with another
\* runnerId.
C33_SweepKeepsRemoteDiffWrites ==
  [][\A p \in PassIds :
       pass[p].pc = "sweep" /\ pass'[p] # pass[p] =>
         \A w \in pass[p].writes :
           w.phase \in {"update", "create"} =>
             /\ <<w.repoId, w.name>> \in DOMAIN runnerStore'
             /\ runnerStore'[<<w.repoId, w.name>>] = runnerStore[<<w.repoId, w.name>>]]_vars

\* ------------------------------------------------------------ repositories apart
\* The keys under which a step has stored, changed or removed an item.
ChangedKeys(before, after) ==
  {k \in DOMAIN before \cup DOMAIN after :
     k \notin DOMAIN before \/ k \notin DOMAIN after \/ before[k] # after[k]}

\* C34: while a pass processes a configured repository, the key paths it
\* stores under are those of /repo-:repoId of that repository, the Repository
\* record it has read and puts back is that of the repository it processes,
\* and the Runner records it reads are none of those the pass wrote while it
\* processed the repositories before; also for two repositories of one name
\* under different owners.
C34_RepositoriesAreDisjoint ==
  [][\A p \in PassIds :
       pass[p].pc # "idle" /\ pass'[p] # pass[p] =>
         LET this == repositories[pass[p].repoIdx]
         IN  /\ \A k \in ChangedKeys(repoStore, repoStore') \cup
                        ChangedKeys(runnerStore, runnerStore') \cup
                        ChangedKeys(outageStore, outageStore') : k[1] = RepoId(p)
             /\ \A k \in DOMAIN pass'[p].existingRunners :
                  pass'[p].existingRunners[k].repoId = RepoId(p)
             /\ pass[p].pc = "putRepository" => pass[p].repository.owner = this.owner
             /\ pass[p].pc = "fetchExistingRunners" =>
                  \A w \in pass[p].writes : \A k \in DOMAIN pass'[p].existingRunners :
                    <<w.repoId, w.name>> # <<pass'[p].existingRunners[k].repoId,
                                             pass'[p].existingRunners[k].name>>]_vars

\* ------------------------------------------------------------ termination
\* C35: a pass that has started returns, whatever its external calls answer,
\* and on its way takes up the repositories of the list one after the other,
\* each once: every entry into the processing of a repository is that of the
\* next index, and the return follows the last index.
C35_PassTerminates ==
  /\ \A p \in PassIds : (pass[p].pc # "idle") ~> Returned(p)
  /\ [][\A p \in PassIds :
          /\ pass[p].pc # "idle" /\ pass'[p].pc = "getRepository" =>
               pass'[p].repoIdx = pass[p].repoIdx + 1
          /\ pass[p].pc # "idle" /\ pass'[p].pc # "getRepository" /\ pass'[p].pc # "idle" =>
               pass'[p].repoIdx = pass[p].repoIdx
          /\ pass[p].pc # "idle" /\ pass'[p].pc = "idle" =>
               pass[p].repoIdx = Len(repositories)]_vars

\* A pass over both repositories has returned after the first was given up.
C35_Witness ==
  /\ Returned(1)
  /\ pass[1].failed = {1}
  /\ DOMAIN lastPass = {<<"x">>, <<"y">>}
  /\ lastPass[<<"y">>].complete

====
